---------------------------- MODULE Spec2Model ----------------------------
(***************************************************************************)
(* A model of approxeng.util: the IntervalCheck gate and the interpolator, *)
(* tuple_interpolator and quantise_to function factories.                  *)
(*                                                                         *)
(* Time is counted in whole clock ticks; sums and differences of whole     *)
(* numbers are exact in Python floats, so the gate's arithmetic is integer *)
(* arithmetic.  The interpolation arithmetic is binary floating point with *)
(* a significand of Precision bits, rounded to nearest (ties to even)      *)
(* after every operation, as Python's float does with 53 bits.             *)
(***************************************************************************)
EXTENDS Integers, Sequences, FiniteSets, TLC

VARIABLES
    clock,      \* what time() returns
    interval,   \* IntervalCheck.interval
    last_time,  \* IntervalCheck.last_time: None or <<t>>
    pc,         \* "outside" or "inside" a with-block of the instance
    op,         \* the operation of the latest step
    ret,        \* what the latest should_run() / bool returned
    last_true,  \* clock of the latest should_run() that returned True
    prev_true,  \* clock of the one before it
    last_ret,   \* clock at which the latest sleep() returned
    prev_ret,   \* clock at which the one before it returned
    overslept,  \* whether some time.sleep() so far blocked longer than asked
    last_exit,  \* clock at which the latest with-block was left
    body_start, \* clock at which the body of the latest with-block started
    params,     \* the arguments a factory was called with
    fn,         \* what the factory returned: a function, or ValueError raised
    arg,        \* the argument of the latest call of fn: None or <<value>>
    out         \* what that call returned: None or <<result>>

gate_vars == <<clock, interval, last_time, pc, op, ret, last_true, prev_true,
               last_ret, prev_ret, overslept, last_exit, body_start>>

num_vars == <<params, fn, arg, out>>

vars == <<gate_vars, num_vars>>

(***************************************************************************)
(* Bounds of the model.                                                    *)
(***************************************************************************)
MaxTime == 6
MaxInterval == 3
MaxOversleep == 1
Precision == 5
MaxLevel == 3

None == <<>>

(***************************************************************************)
(* IntervalCheck                                                           *)
(***************************************************************************)

\* IntervalCheck.__init__: the fields of a new instance
IntervalCheck_init(i) ==
    /\ interval = i
    /\ last_time = None

\* the condition of should_run: no run yet, or more than interval elapsed
interval_elapsed_ge(now, last, iv) == last = None \/ now - last[1] >= iv
interval_elapsed_armed(now, last, iv) == last # None /\ now - last[1] > iv
interval_elapsed(now, last, iv) == last = None \/ now - last[1] > iv

history_unchanged ==
    UNCHANGED <<last_ret, prev_ret, overslept, last_exit, body_start>>

\* the gate shares nothing with the function factories
factories_unchanged == UNCHANGED num_vars

\* should_run(), and __bool__ which returns should_run()
should_run_as(name) ==
    LET now == clock IN
    /\ op' = name
    /\ IF interval_elapsed(now, last_time, interval)
          THEN /\ last_time' = <<now>>
               /\ ret' = TRUE
               /\ last_true' = <<now>>
               /\ prev_true' = last_true
          ELSE /\ ret' = FALSE
               /\ UNCHANGED <<last_time, last_true, prev_true>>
    /\ UNCHANGED <<clock, interval, pc>>
    /\ history_unchanged
    /\ factories_unchanged

should_run == should_run_as("should_run")

bool == should_run_as("bool")

\* time.sleep(d): blocks for d, or longer by extra
time_sleep(now, d, extra) == now + d + extra

\* sleep(): the new clock and last_time, with the oversleep of time.sleep
sleep_result(now, last, iv, extra) ==
    IF last = None THEN <<now, <<now>> >>
    ELSE IF now - last[1] > iv THEN <<now, last>>
    ELSE LET remaining_interval == iv - (now - last[1])
         IN  <<time_sleep(now, remaining_interval, extra),
               <<now + remaining_interval>> >>

\* whether sleep() reaches time.sleep
sleep_blocks(now, last, iv) == last # None /\ ~(now - last[1] > iv)

sleep_step ==
    \E extra \in 0..MaxOversleep :
        LET r == sleep_result(clock, last_time, interval, extra) IN
        /\ sleep_blocks(clock, last_time, interval) \/ extra = 0
        /\ r[1] <= MaxTime
        /\ clock' = r[1]
        /\ last_time' = r[2]
        /\ overslept' = (overslept \/ extra > 0)
        /\ UNCHANGED interval

sleep ==
    /\ sleep_step
    /\ op' = "sleep"
    /\ last_ret' = <<clock'>>
    /\ prev_ret' = last_ret
    /\ UNCHANGED <<pc, ret, last_true, prev_true, last_exit, body_start>>
    /\ factories_unchanged

\* __enter__: self.sleep(), then the body of the with-block starts
enter ==
    /\ pc = "outside"
    /\ sleep_step
    /\ pc' = "inside"
    /\ op' = "enter"
    /\ body_start' = <<clock'>>
    /\ UNCHANGED <<ret, last_true, prev_true, last_ret, prev_ret, last_exit>>
    /\ factories_unchanged

\* __exit__: what last_time becomes; raised tells whether the body raised
exit_unless_raised(now, last, raised) == IF raised THEN last ELSE <<now>>
exit_last_time(now, last, raised) == <<now>>

exit ==
    \E raised \in BOOLEAN :
        /\ pc = "inside"
        /\ last_time' = exit_last_time(clock, last_time, raised)
        /\ pc' = "outside"
        /\ op' = IF raised THEN "exit_raised" ELSE "exit"
        /\ last_exit' = <<clock>>
        /\ UNCHANGED <<clock, interval, ret, last_true, prev_true,
                       last_ret, prev_ret, overslept, body_start>>
        /\ factories_unchanged

\* time passes between calls
tick ==
    /\ clock < MaxTime
    /\ clock' = clock + 1
    /\ op' = "tick"
    /\ UNCHANGED <<interval, last_time, pc, ret, last_true, prev_true,
                   last_ret, prev_ret, overslept, last_exit, body_start>>
    /\ factories_unchanged

\* no factory called yet
NoParams == [factory |-> "none"]
NoFunction == [raised |-> FALSE, kind |-> "none"]

InitFactories ==
    /\ params = NoParams
    /\ fn = NoFunction
    /\ arg = None
    /\ out = None

InitGate ==
    /\ InitFactories
    /\ clock = 0
    /\ \E i \in 0..MaxInterval : IntervalCheck_init(i)
    /\ pc = "outside"
    /\ op = "init"
    /\ ret = FALSE
    /\ last_true = None
    /\ prev_true = None
    /\ last_ret = None
    /\ prev_ret = None
    /\ overslept = FALSE
    /\ last_exit = None
    /\ body_start = None

\* every operation of the instance, in any order
NextGate == tick \/ should_run \/ bool \/ sleep \/ enter \/ exit
SpecGate == InitGate /\ [][NextGate]_vars

\* a polling loop that only asks should_run()
NextPoll == tick \/ should_run \/ bool
SpecPoll == InitGate /\ [][NextPoll]_vars

\* sleep() called repeatedly
NextSleep == tick \/ sleep
SpecSleep == InitGate /\ [][NextSleep]_vars

\* the instance used in with-blocks only
NextScope == tick \/ enter \/ exit
SpecScope == InitGate /\ [][NextScope]_vars


(***************************************************************************)
(* Floating point.  A float is <<m, e>>, the number m * 2^e, with m odd or *)
(* <<0, 0>>, so that equal numbers are equal tuples.  Every float of the   *)
(* model has a significand of at most Precision bits; the exponent is not  *)
(* bounded (no overflow, no underflow).                                    *)
(***************************************************************************)
RECURSIVE Pow2(_)
Pow2(n) == IF n = 0 THEN 1 ELSE 2 * Pow2(n - 1)

Abs(n) == IF n < 0 THEN -n ELSE n

RECURSIVE BitLen(_)
BitLen(n) == IF n = 0 THEN 0 ELSE 1 + BitLen(n \div 2)

\* the number m * 2^e in normal form
RECURSIVE Dy(_, _)
Dy(m, e) ==
    IF m = 0 THEN <<0, 0>>
    ELSE IF m % 2 = 0 THEN Dy(m \div 2, e + 1)
    ELSE <<m, e>>

\* exact arithmetic on the numbers floats stand for
Neg(x) == <<-x[1], x[2]>>
Add(x, y) ==
    LET e == IF x[2] < y[2] THEN x[2] ELSE y[2]
    IN  Dy(x[1] * Pow2(x[2] - e) + y[1] * Pow2(y[2] - e), e)
Sub(x, y) == Add(x, Neg(y))
Mul(x, y) == Dy(x[1] * y[1], x[2] + y[2])
AbsF(x) == <<Abs(x[1]), x[2]>>
Lt(x, y) == Sub(x, y)[1] < 0
Gt(x, y) == Lt(y, x)
Le(x, y) == ~Lt(y, x)

Zero == <<0, 0>>
One == <<1, 0>>

\* n / 2^s for n >= 0, s >= 1, rounded to the nearest integer, ties to even
RoundHalfEven(n, s) ==
    LET q == n \div Pow2(s)
        r == n % Pow2(s)
        half == Pow2(s - 1)
    IN  IF r > half \/ (r = half /\ q % 2 = 1) THEN q + 1 ELSE q

\* the float nearest to x
Fl(x) ==
    LET n == BitLen(Abs(x[1]))
        s == n - Precision
    IN  IF s <= 0 THEN x
        ELSE IF x[1] > 0 THEN Dy(RoundHalfEven(x[1], s), x[2] + s)
        ELSE Dy(-RoundHalfEven(-x[1], s), x[2] + s)

\* Python's x + y, x - y and x * y on floats
fadd(x, y) == Fl(Add(x, y))
fsub(x, y) == Fl(Sub(x, y))
fmul(x, y) == Fl(Mul(x, y))

\* Python's 1 / x for a float x # 0: for |m| > 1 the quotient 2^k / |m| has
\* exactly Precision bits before rounding and is never half way
frecip(x) ==
    LET m == Abs(x[1])
        k == BitLen(m) + Precision - 1
        q == Pow2(k) \div m
        r == Pow2(k) % m
        up == IF 2 * r > m THEN q + 1 ELSE q
    IN  IF m = 1 THEN <<x[1], -x[2]>>
        ELSE IF x[1] > 0 THEN Dy(up, -x[2] - k)
        ELSE Dy(-up, -x[2] - k)

\* Python's min(a, b) and max(a, b): b if it is smaller (larger), else a
fmin(a, b) == IF Lt(b, a) THEN b ELSE a
fmax(a, b) == IF Gt(b, a) THEN b ELSE a

\* an int where a float is needed
from_int(n) == Fl(Dy(n, 0))

\* math.floor
floor(x) == IF x[2] >= 0 THEN x[1] * Pow2(x[2]) ELSE x[1] \div Pow2(-x[2])

(***************************************************************************)
(* interpolator, tuple_interpolator, quantise_to                           *)
(***************************************************************************)
ValueError == [raised |-> TRUE, kind |-> "ValueError"]

\* lines 99-101: the call is redone with both pairs of bounds swapped
swap_bounds_source_only(source_low, source_high, dest_low, dest_high) ==
    IF Gt(source_low, source_high)
        THEN <<source_high, source_low, dest_low, dest_high>>
        ELSE <<source_low, source_high, dest_low, dest_high>>
swap_bounds(source_low, source_high, dest_low, dest_high) ==
    IF Gt(source_low, source_high)
        THEN <<source_high, source_low, dest_high, dest_low>>
        ELSE <<source_low, source_high, dest_low, dest_high>>

\* interpolator(): ValueError, or the closure it returns
interpolator(source_low, source_high, dest_low, dest_high, lock_range) ==
    LET b == swap_bounds(source_low, source_high, dest_low, dest_high)
    IN  IF b[1] = b[2] THEN ValueError
        ELSE [raised |-> FALSE,
              kind |-> "interpolator",
              source_low |-> b[1],
              source_range_inverse |-> frecip(fsub(b[2], b[1])),
              dest_low |-> b[3],
              dest_high |-> b[4],
              lock_range |-> lock_range]

\* i * dest_high + (1.0 - i) * dest_low
blend(f, i) == fadd(fmul(i, f.dest_high), fmul(fsub(One, i), f.dest_low))

inner_interpolator(f, value) ==
    LET i == fmul(fsub(value, f.source_low), f.source_range_inverse)
    IN  blend(f, i)

inner_locked_interpolator(f, value) ==
    LET i == fmax(Zero, fmin(One,
                 fmul(fsub(value, f.source_low), f.source_range_inverse)))
    IN  blend(f, i)

\* calling what interpolator() returned
call_interpolation(f, value) ==
    IF f.lock_range THEN inner_locked_interpolator(f, value)
    ELSE inner_interpolator(f, value)

\* tuple_interpolator(): ValueError, or the closure over i
tuple_interpolator(source_low, source_high, dest_low, dest_high, lock_range) ==
    LET i == interpolator(source_low, source_high, dest_low, dest_high,
                          lock_range)
    IN  IF i.raised THEN ValueError
        ELSE [raised |-> FALSE, kind |-> "tuple_interpolator", i |-> i]

call_tuple_interpolation(f, t) ==
    [k \in 1..Len(t) |-> call_interpolation(f.i, t[k])]

\* the checks of quantise_to on its own parameters
bad_quantise_params_no_level(max_level, low_pad, high_pad) ==
    \/ Gt(low_pad, One) \/ Lt(low_pad, Zero)
    \/ Gt(high_pad, One) \/ Lt(high_pad, Zero)
bad_quantise_params(max_level, low_pad, high_pad) ==
    \/ Gt(low_pad, One) \/ Lt(low_pad, Zero)
    \/ Gt(high_pad, One) \/ Lt(high_pad, Zero)
    \/ max_level < 1

\* quantise_to(): ValueError, or the closure over i and max_level
quantise_to(source_low, source_high, max_level, low_pad, high_pad) ==
    IF bad_quantise_params(max_level, low_pad, high_pad) THEN ValueError
    ELSE LET i == interpolator(source_low, source_high, low_pad,
                               fsub(from_int(max_level + 1), high_pad), TRUE)
         IN  IF i.raised THEN ValueError
             ELSE [raised |-> FALSE, kind |-> "quantise_to", i |-> i,
                   max_level |-> max_level]

\* min(max_level, math.floor(i(value)))
call_quantiser(f, value) ==
    LET level == floor(call_interpolation(f.i, value))
    IN  IF level < f.max_level THEN level ELSE f.max_level

(***************************************************************************)
(* The arguments the factories and the functions are tried on.             *)
(***************************************************************************)
Sources == {Dy(0, 0), Dy(1, 0), Dy(-1, 0), Dy(3, -1), Dy(25, -3), Dy(3, 0)}
Dests == Sources \cup {Dy(5, -2)}
Values == Sources \cup {Dy(-25, 0), Dy(20, 0), Dy(1, -2), Dy(5, -1), Dy(2, 0)}
Pads == {Dy(-1, -2), Dy(0, 0), Dy(1, -2), Dy(1, -1), Dy(1, 0), Dy(5, -2)}
Levels == 0..MaxLevel
Tuples == {<<>>, <<Dy(0, 0)>>, <<Dy(1, 0), Dy(-25, 0)>>,
           <<Dy(3, 0), Dy(1, -2), Dy(20, 0)>>}

gate_unchanged == UNCHANGED gate_vars

make_interpolator ==
    /\ params = NoParams
    /\ \E source_low \in Sources, source_high \in Sources,
          dest_low \in Dests, dest_high \in Dests, lock_range \in BOOLEAN :
           /\ params' = [factory |-> "interpolator",
                         source_low |-> source_low, source_high |-> source_high,
                         dest_low |-> dest_low, dest_high |-> dest_high,
                         lock_range |-> lock_range]
           /\ fn' = interpolator(source_low, source_high, dest_low, dest_high,
                                 lock_range)
           /\ UNCHANGED <<arg, out>>
           /\ gate_unchanged

make_tuple_interpolator ==
    /\ params = NoParams
    /\ \E source_low \in Sources, source_high \in Sources,
          dest_low \in Dests, dest_high \in Dests, lock_range \in BOOLEAN :
           /\ params' = [factory |-> "tuple_interpolator",
                         source_low |-> source_low, source_high |-> source_high,
                         dest_low |-> dest_low, dest_high |-> dest_high,
                         lock_range |-> lock_range]
           /\ fn' = tuple_interpolator(source_low, source_high, dest_low,
                                       dest_high, lock_range)
           /\ UNCHANGED <<arg, out>>
           /\ gate_unchanged

make_quantiser ==
    /\ params = NoParams
    /\ \E source_low \in Sources, source_high \in Sources, max_level \in Levels,
          low_pad \in Pads, high_pad \in Pads :
           /\ params' = [factory |-> "quantise_to",
                         source_low |-> source_low, source_high |-> source_high,
                         max_level |-> max_level,
                         low_pad |-> low_pad, high_pad |-> high_pad]
           /\ fn' = quantise_to(source_low, source_high, max_level, low_pad,
                                high_pad)
           /\ UNCHANGED <<arg, out>>
           /\ gate_unchanged

\* a raised ValueError leaves the caller without a function to call; the
\* functions keep no state, so each one is called once
call_interpolator ==
    /\ fn.kind = "interpolator"
    /\ arg = None
    /\ \E value \in Values :
           /\ arg' = <<value>>
           /\ out' = <<call_interpolation(fn, value)>>
           /\ UNCHANGED <<params, fn>>
           /\ gate_unchanged

call_tuple_interpolator ==
    /\ fn.kind = "tuple_interpolator"
    /\ arg = None
    /\ \E t \in Tuples :
           /\ arg' = <<t>>
           /\ out' = <<call_tuple_interpolation(fn, t)>>
           /\ UNCHANGED <<params, fn>>
           /\ gate_unchanged

call_quantise ==
    /\ fn.kind = "quantise_to"
    /\ arg = None
    /\ \E value \in Values :
           /\ arg' = <<value>>
           /\ out' = <<call_quantiser(fn, value)>>
           /\ UNCHANGED <<params, fn>>
           /\ gate_unchanged

\* the gate is not used
InitNum ==
    /\ InitFactories
    /\ clock = 0
    /\ IntervalCheck_init(0)
    /\ pc = "outside"
    /\ op = "init"
    /\ ret = FALSE
    /\ last_true = None
    /\ prev_true = None
    /\ last_ret = None
    /\ prev_ret = None
    /\ overslept = FALSE
    /\ last_exit = None
    /\ body_start = None

NextNum ==
    \/ make_interpolator \/ make_tuple_interpolator \/ make_quantiser
    \/ call_interpolator \/ call_tuple_interpolator \/ call_quantise
SpecNum == InitNum /\ [][NextNum]_vars

(***************************************************************************)
(* Claims about IntervalCheck                                              *)
(***************************************************************************)

\* C1: under any interleaving of should_run(), bool, sleep(), scope entry and
\* scope exit, two should_run() calls that return True are separated by
\* strictly more than interval.
C1_TrueResultsSpaced ==
    prev_true # None => last_true[1] - prev_true[1] > interval

C1_Witness ==
    /\ prev_true # None
    /\ interval > 0
    /\ last_ret # None
    /\ last_exit # None

\* C2: should_run() at time now returns True and sets last_time to now exactly
\* when last_time is unset or now - last_time > interval; otherwise it returns
\* False and leaves last_time alone. interval never changes. Evaluating the
\* instance as a boolean does the same.
C2_ShouldRunContract ==
    [][ (op' \in {"should_run", "bool"}) =>
          /\ IF last_time = None \/ clock - last_time[1] > interval
                THEN ret' = TRUE /\ last_time' = <<clock>>
                ELSE ret' = FALSE /\ last_time' = last_time
          /\ interval' = interval
          /\ clock' = clock ]_vars

C2_Witness ==
    /\ op = "bool"
    /\ ret = FALSE
    /\ last_time # None
    /\ clock > last_time[1]

\* C3 as stated: on a fresh instance with interval > 0 the first should_run()
\* returns True, a second one with no time elapsed returns False, and one made
\* when at least interval (>=) has elapsed since the last True returns True.
C3_Original ==
    [][ (op' = "should_run" /\ interval > 0) =>
          /\ last_true = None => ret' = TRUE
          /\ (last_true # None /\ clock = last_true[1]) => ret' = FALSE
          /\ (last_true # None /\ clock - last_true[1] >= interval)
                => ret' = TRUE ]_vars

\* C3 amended: the third call returns True once strictly more than interval
\* has elapsed since the last True; at exactly interval it still returns False.
C3_Amended ==
    [][ (op' = "should_run" /\ interval > 0) =>
          /\ last_true = None => ret' = TRUE
          /\ (last_true # None /\ clock = last_true[1]) => ret' = FALSE
          /\ (last_true # None /\ clock - last_true[1] > interval)
                => ret' = TRUE
          /\ (last_true # None /\ clock - last_true[1] = interval)
                => ret' = FALSE ]_vars

C3_Witness ==
    /\ op = "should_run"
    /\ ret = TRUE
    /\ interval > 0
    /\ prev_true # None
    /\ last_true = <<clock>>

\* C4: with sleep() called repeatedly, every sleep() after the first returns no
\* earlier than interval after the previous sleep() returned (read with a
\* time.sleep() that never blocks longer than asked).
C4_SleepReturnsSpaced ==
    (prev_ret # None /\ ~overslept) => last_ret[1] - prev_ret[1] >= interval

\* C5: used in with-blocks only, scope exit sets last_time to the current
\* time whether or not the body raised, and the body of every block after the
\* first starts no earlier than interval after the previous block was left.
C5_ScopeEndToStart ==
    /\ op \in {"exit", "exit_raised"} => last_time = <<clock>>
    /\ (pc = "inside" /\ last_exit # None)
          => body_start[1] - last_exit[1] >= interval

C5_Witness ==
    /\ pc = "inside"
    /\ last_exit # None
    /\ interval > 0
    /\ body_start[1] = last_exit[1] + interval
    /\ last_exit[1] > 0


(***************************************************************************)
(* Claims about the function factories                                     *)
(***************************************************************************)
called(factory) == params.factory = factory /\ out # None

\* C6: a quantiser built with valid parameters returns, for every input, a
\* level in 0..max_level, and returns max_level for the input source_high.
C6_QuantiserRange ==
    called("quantise_to") =>
        /\ out[1] \in 0..params.max_level
        /\ arg[1] = params.source_high => out[1] = params.max_level

\* C7: a quantiser built with valid parameters returns level 0 for the input
\* source_low, for every low_pad in [0, 1], 1.0 included.
C7_SourceLowIsLevelZero ==
    (called("quantise_to") /\ arg[1] = params.source_low) => out[1] = 0

\* C8: with lock_range the interpolator's result lies in the closed interval
\* between dest_low and dest_high, for every input.
C8_LockedWithinDest ==
    (called("interpolator") /\ params.lock_range) =>
        /\ Le(fmin(params.dest_low, params.dest_high), out[1])
        /\ Le(out[1], fmax(params.dest_low, params.dest_high))

\* C9 as stated: for low # high in either order, the unlocked
\* interpolator(low, high, low, high) returns v and the unlocked
\* interpolator(low, high, high, low) returns (low + high) - v, for every v.
C9_Original ==
    (called("interpolator") /\ ~params.lock_range) =>
        /\ (params.dest_low = params.source_low
              /\ params.dest_high = params.source_high)
             => out[1] = arg[1]
        /\ (params.dest_low = params.source_high
              /\ params.dest_high = params.source_low)
             => out[1] = Sub(Add(params.source_low, params.source_high),
                             arg[1])

\* the bounds as given, with the numerically lower source bound first
lower_first ==
    IF Lt(params.source_high, params.source_low)
        THEN <<params.source_high, params.source_low,
               params.dest_high, params.dest_low>>
        ELSE <<params.source_low, params.source_high,
               params.dest_low, params.dest_high>>

\* |r * (hi - lo) - (dlo * (hi - v) + dhi * (v - lo))|: how far r is from the
\* affine map through (lo, dlo) and (hi, dhi), times hi - lo
affine_error(b, v, r) ==
    AbsF(Sub(Mul(r, Sub(b[2], b[1])),
             Add(Mul(b[3], Sub(b[2], v)), Mul(b[4], Sub(v, b[1])))))

\* |v - lo| * (|dlo| + |dhi|) + |hi - v| * |dlo|
affine_scale(b, v) ==
    Add(Mul(AbsF(Sub(v, b[1])), Add(AbsF(b[3]), AbsF(b[4]))),
        Mul(AbsF(Sub(b[2], v)), AbsF(b[3])))

\* C9 amended: for source_low # source_high in either order, the unlocked
\* interpolator is the affine map sending source_low to dest_low and
\* source_high to dest_high up to rounding: its result r satisfies
\* |r - A(v)| * (hi - lo) * 2^Precision <= 9 * affine_scale, and the numerically
\* lower source bound is mapped to its destination exactly.
C9_AffineUpToRounding ==
    (called("interpolator") /\ ~params.lock_range) =>
        /\ Le(Mul(Dy(Pow2(Precision), 0),
                  affine_error(lower_first, arg[1], out[1])),
              Mul(Dy(9, 0), affine_scale(lower_first, arg[1])))
        /\ arg[1] = lower_first[1] => out[1] = lower_first[3]

C9_Witness ==
    /\ called("interpolator")
    /\ ~params.lock_range
    /\ Gt(params.source_low, params.source_high)
    /\ params.dest_low = params.source_low
    /\ params.dest_high = params.source_high
    /\ out[1] # arg[1]
    /\ Gt(arg[1], params.source_low)

\* C10: a factory raises exactly when its parameters are invalid, and then
\* nothing is ever called: interpolator and tuple_interpolator when
\* source_low = source_high, quantise_to also when a pad is outside [0, 1] or
\* max_level < 1; otherwise it returns a function.
C10_RejectedAtConstruction ==
    /\ params.factory \in {"interpolator", "tuple_interpolator"} =>
          (fn.raised <=> params.source_low = params.source_high)
    /\ params.factory = "quantise_to" =>
          (fn.raised <=>
              \/ params.source_low = params.source_high
              \/ Lt(params.low_pad, Zero) \/ Lt(One, params.low_pad)
              \/ Lt(params.high_pad, Zero) \/ Lt(One, params.high_pad)
              \/ params.max_level < 1)
    /\ fn.raised => (arg = None /\ out = None)
    /\ ~fn.raised => fn.kind = params.factory

C10_Witness ==
    /\ params.factory = "quantise_to"
    /\ fn.raised
    /\ params.max_level = 0
    /\ params.source_low # params.source_high
    /\ params.low_pad = One
    /\ params.high_pad = Zero

=============================================================================
